---- MODULE Spec2Model ----
(***************************************************************************)
(* Desktop Cube Baby: the loading state machine, the per-frame schedule    *)
(* and the body physics of src/src/main.rs, with the display bounds of     *)
(* src/src/resources.rs.                                                   *)
(*                                                                         *)
(* Numbers.  f32/f64 quantities are fixed-point integers: lengths and      *)
(* speeds in units of 1/FP pixel, times in units of 1/TPS second.  A       *)
(* division truncates towards zero.  Inputs are chosen so that the         *)
(* square roots the claims depend on are exact.                            *)
(***************************************************************************)
EXTENDS Integers, Sequences, FiniteSets, TLC

VARIABLES
    pc,                 \* position in the frame: which schedule runs next
    todo,               \* systems of the current schedule run not yet executed
    ran,                \* systems executed so far in this frame, in order
    display_state,      \* State<LoadingState<DisplayLoadingMarker>>
    texture_state,      \* State<LoadingState<TextureLoadingMarker>>
    application_state,  \* State<LoadingState<ApplicationLoadingMarker>>
    display_next,       \* NextState<..Display..>: "None" or the queued state
    texture_next,       \* NextState<..Texture..>
    application_next,   \* NextState<..Application..>
    display_properties, \* the DisplayProperties resource
    monitor,            \* what current_monitor() returns this frame
    image_loaded,       \* asset_server.is_loaded(image_handle)
    window_visible,     \* Window::visible of the primary window
    window_position,    \* Window::position of the primary window (pixels)
    bodies,             \* number of CubeBaby entities
    hook_runs,          \* how often on_application_load_finished has run
    position,           \* Position of the body (1/FP px)
    velocity,           \* Velocity of the body (1/FP px per second)
    push_delay,         \* PushDelay of the body (1/TPS s)
    distance,           \* Distance of the body (1/FP px)
    atlas_index,        \* sprite.texture_atlas.index
    start_position,     \* local start_position of the last update_window_movement
    drag_impulse,       \* what the last fixed_update_mouse_collision added, if anything
    knock,              \* what the last fixed_update_spacebar_knocking drew and added
    events_a,           \* Events<CursorMoved>: the older buffer
    events_b,           \* Events<CursorMoved>: the newer buffer
    reader_seen,        \* events of events_a \o events_b the EventReader has read
    should_update,      \* a FixedUpdate ran since the event buffers last rotated
    space_just_pressed, \* ButtonInput::just_pressed(KeyCode::Space) this frame
    frame_dt,           \* Time::delta of this frame (1/TPS s)
    overstep,           \* Time<Fixed>: accumulated time not yet simulated
    play_frames,        \* frames begun since the window became visible
    steps,              \* handler applications (the handler-level specifications)
    hist                \* history: time since the last impulses, longest tick, seeds

vars == <<pc, todo, ran, display_state, texture_state, application_state,
          display_next, texture_next, application_next, display_properties,
          monitor, image_loaded, window_visible, window_position, bodies,
          hook_runs, position, velocity, push_delay, distance, atlas_index,
          start_position, drag_impulse, knock, events_a, events_b,
          reader_seen, should_update, space_just_pressed, frame_dt, overstep,
          play_frames, steps, hist>>

loadVars == <<display_state, texture_state, application_state,
              display_next, texture_next, application_next, display_properties>>
bodyVars == <<bodies, hook_runs, position, velocity, push_delay, distance,
              atlas_index, start_position, drag_impulse, knock>>
windowVars == <<window_visible, window_position>>
eventVars == <<events_a, events_b, reader_seen>>
envVars == <<monitor, image_loaded, space_just_pressed, frame_dt, play_frames>>

----------------------------------------------------------------------------
(* Scales and bounds *)

\* fixed-point units per pixel: 1/8 px and 1/5 of a unit vector are exact
FP == 8 * 5
\* time units per second: half a fixed timestep and 0.1 s are representable
TPS == 10 * 64
\* play frames explored after the window became visible
MaxPlayFrames == 2
\* play frames in which the host delivers input
MaxInputFrames == 1
\* handler applications explored by the handler-level specification
MaxSteps == 2
MaxTicks == 3
MaxSpins == 9

----------------------------------------------------------------------------
(* Program constants *)

ATLAS_FRAMES == 8
SPRITE_SCALE == 2
WINDOW_SIZE == 32 * SPRITE_SCALE
PUSH_STRENGTH == 16
\* 0.25 s
PUSH_DELAY == TPS \div 4
\* SLIDE_DRAG = 0.25 = SLIDE_DRAG_NUM / SLIDE_DRAG_DEN
SLIDE_DRAG_NUM == 1
SLIDE_DRAG_DEN == 4
SLIDE_SPIN_DISTANCE == 10
\* fixed_update_spacebar_knocking::MAX_STRENGTH
MAX_STRENGTH == PUSH_STRENGTH * PUSH_STRENGTH * 4
\* Time<Fixed>'s timestep: the engine default of 64 Hz, which main() keeps
Timestep == TPS \div 64
I32Max == 2147483647

Loading == "Loading"
Finished == "Finished"
None == "None"
\* Option<T>: the empty sequence, or the one value
No == << >>
Some(v) == <<v>>

----------------------------------------------------------------------------
(* Arithmetic *)

Abs(a) == IF a >= 0 THEN a ELSE -a
Min(a, b) == IF a <= b THEN a ELSE b
Max(a, b) == IF a >= b THEN a ELSE b

\* division rounding towards zero
TruncDiv(a, b) == IF a >= 0 THEN a \div b ELSE -((-a) \div b)

RECURSIVE SqrtSearch(_, _, _)
SqrtSearch(n, lo, hi) ==
    IF lo >= hi THEN lo
    ELSE LET mid == (lo + hi + 1) \div 2
         IN IF mid * mid <= n THEN SqrtSearch(n, mid, hi)
                              ELSE SqrtSearch(n, lo, mid - 1)

\* floor of the square root (of a number below 2^31, so a root below 46341)
ISqrt(n) == IF n <= 0 THEN 0 ELSE SqrtSearch(n, 0, 46340)

Vec(a, b) == [x |-> a, y |-> b]
ZERO == Vec(0, 0)
VAdd(u, v) == Vec(u.x + v.x, u.y + v.y)
VSub(u, v) == Vec(u.x - v.x, u.y - v.y)
VMul(u, k) == Vec(u.x * k, u.y * k)
VDiv(u, k) == Vec(TruncDiv(u.x, k), TruncDiv(u.y, k))
LengthSquared(u) == u.x * u.x + u.y * u.y
\* Vec2::length, of a vector in fixed-point units
Length(u) == ISqrt(LengthSquared(u))

\* Vec2::normalize_or_zero: a unit vector in fixed-point units, or zero
NormalizeOrZero(u) ==
    IF Length(u) = 0 THEN ZERO ELSE VDiv(VMul(u, FP), Length(u))

\* f32::round of a fixed-point value, to whole pixels (half away from zero)
Round(a) == IF a >= 0 THEN (2 * a + FP) \div (2 * FP)
                      ELSE -((2 * (-a) + FP) \div (2 * FP))

----------------------------------------------------------------------------
(* DisplayProperties (resources.rs) *)

minimum_position(d) == d.position

SaturatingAdd(a, b) == Min(a + b, I32Max)

maximum_position(d) ==
    Vec(SaturatingAdd(minimum_position(d).x, d.resolution.x),
        SaturatingAdd(minimum_position(d).y, d.resolution.y))

center_position(d) ==
    Vec(SaturatingAdd(minimum_position(d).x, d.resolution.x \div 2),
        SaturatingAdd(minimum_position(d).y, d.resolution.y \div 2))

contains(d, p) ==
    /\ minimum_position(d).x < p.x
    /\ maximum_position(d).x > p.x
    /\ minimum_position(d).y < p.y
    /\ maximum_position(d).y > p.y

DisplayDefault == [position |-> ZERO, resolution |-> ZERO]

----------------------------------------------------------------------------
(* What the host delivers *)

\* the monitors current_monitor() may report
Monitors ==
    { [position |-> Vec(0, 0), resolution |-> Vec(72, 64)],
      [position |-> Vec(-16, 8), resolution |-> Vec(64, 96)] }

\* frame times: half a fixed timestep, and two fixed timesteps
FrameDts == {Timestep \div 2, 2 * Timestep}

CursorAt == Vec(100 * FP, 100 * FP)

\* the CursorMoved positions winit delivers before one frame
CursorBatches ==
    { <<CursorAt, CursorAt>>,
      <<CursorAt, VAdd(CursorAt, Vec(15, 20))>>,
      <<CursorAt, CursorAt, VAdd(CursorAt, Vec(-2 * FP, 0))>> }

\* the three fastrand::f32() draws of one knock, in 1/FP
KnockRolls ==
    { <<0, 20, 5>>,
      <<20, 20, 5>>,
      <<32, 36, 5>>,
      <<32, 36, 0>> }

----------------------------------------------------------------------------
(* The schedules of main() *)

FixedUpdateSystems ==
    {"fixed_update_mouse_collision", "fixed_update_spacebar_knocking"}

UpdateSystems ==
    {"update_display_loading", "update_texture_loading",
     "update_application_loading", "update_window_movement",
     "update_sprite_rotation"}

\* mutant: the systems are registered without their run conditions
RunIf_ungated(s) == s \in FixedUpdateSystems \cup UpdateSystems

\* the run_if(in_state(..)) condition main() gives each system
RunIf(s) ==
    CASE s = "update_display_loading" -> display_state = Loading
      [] s = "update_texture_loading" -> texture_state = Loading
      [] s = "update_application_loading" -> application_state = Loading
      [] OTHER -> application_state = Finished

\* mutant: a frame that queues nothing falls back to the default state
ApplyNext_default(current, next) == IF next = None THEN Loading ELSE next

\* apply_state_transition: the queued state, if any, becomes the state
ApplyNext(current, next) == IF next = None THEN current ELSE next

\* mutant: the hook runs on every frame spent in the Finished state
EnteredFinished_in_state(current, next) == ApplyNext(current, next) = Finished

\* OnEnter(finished) runs on a transition that changes the state to Finished
EnteredFinished(current, next) == next = Finished /\ current # Finished

Executed(s) == /\ s \in todo
               /\ todo' = todo \ {s}
               /\ ran' = Append(ran, s)

Skipped(s) == /\ s \in todo
              /\ todo' = todo \ {s}
              /\ ran' = ran

\* mutant: the window keeps Window::default()'s visibility
window_settings_default == [visible |-> TRUE]

\* the primary window main() creates
window_settings == [visible |-> FALSE]

----------------------------------------------------------------------------
(* Systems *)

\* mutant: the monitor is stored but the state is never set
update_display_loading_no_set ==
    IF monitor # No
    THEN /\ display_properties' = monitor[1]
         /\ UNCHANGED display_next
    ELSE UNCHANGED <<display_properties, display_next>>

update_display_loading ==
    IF monitor # No
    THEN /\ display_properties' = monitor[1]
         /\ display_next' = Finished
    ELSE UNCHANGED <<display_properties, display_next>>

\* The asset server stores the image in Assets<Image> when it marks the handle
\* loaded, so the expect() on get_mut cannot fail; the sampler, the size and
\* the atlas layout written here are read by no system but the spawn.
update_texture_loading ==
    IF image_loaded
    THEN texture_next' = Finished
    ELSE UNCHANGED texture_next

\* mutant: either concern being Finished is taken as enough
update_application_loading_either ==
    IF display_state = Finished \/ texture_state = Finished
    THEN application_next' = Finished
    ELSE UNCHANGED application_next

\* mutant: a state that is only queued counts as Finished already
update_application_loading_queued ==
    IF /\ (display_state = Finished \/ display_next = Finished)
       /\ (texture_state = Finished \/ texture_next = Finished)
    THEN application_next' = Finished
    ELSE UNCHANGED application_next

update_application_loading ==
    IF display_state = Finished /\ texture_state = Finished
    THEN application_next' = Finished
    ELSE UNCHANGED application_next

\* mutant: the body is spawned with its corner at the centre of the display
SpawnPosition_corner_at_center(d) == VMul(center_position(d), FP)

SpawnPosition(d) ==
    VSub(VMul(center_position(d), FP),
         Vec((WINDOW_SIZE * FP) \div 2, (WINDOW_SIZE * FP) \div 2))

on_application_load_finished ==
    /\ bodies' = bodies + 1
    /\ hook_runs' = hook_runs + 1
    /\ position' = SpawnPosition(display_properties)
    /\ velocity' = ZERO
    /\ push_delay' = 0
    /\ distance' = 0
    /\ atlas_index' = 0
    /\ window_position' = Vec(Round(SpawnPosition(display_properties).x),
                              Round(SpawnPosition(display_properties).y))
    /\ window_visible' = TRUE
    /\ UNCHANGED <<start_position, drag_impulse, knock>>

\* mutant: the impulse is not scaled by SPRITE_SCALE
KnockImpulse_unscaled(roll) ==
    LET x == 2 * roll[1] - FP
        y == 2 * roll[2] - FP
        strength == ((roll[3] * MAX_STRENGTH) - PUSH_STRENGTH * FP)
                        + PUSH_STRENGTH * FP
    IN VDiv(VMul(NormalizeOrZero(Vec(x, y)), strength), FP)

\* one knock: directions x, y in [-1, 1) and a strength in [0, MAX_STRENGTH)
KnockImpulse(roll) ==
    LET x == 2 * roll[1] - FP
        y == 2 * roll[2] - FP
        strength == ((roll[3] * MAX_STRENGTH) - PUSH_STRENGTH * FP)
                        + PUSH_STRENGTH * FP
    IN VMul(VDiv(VMul(NormalizeOrZero(Vec(x, y)), strength), FP), SPRITE_SCALE)

fixed_update_spacebar_knocking ==
    IF space_just_pressed
    THEN \E roll \in KnockRolls :
             /\ velocity' = VAdd(velocity, KnockImpulse(roll))
             /\ knock' = Some([roll |-> roll, impulse |-> KnockImpulse(roll)])
    ELSE /\ knock' = No
         /\ UNCHANGED velocity

\* the events an EventReader that has read `seen` of them gets from read()
Unread == SubSeq(events_a \o events_b, reader_seen + 1,
                 Len(events_a) + Len(events_b))

\* the impulse of a drag from the first to the last position read
DragImpulse(start, final) ==
    LET delta_position == VMul(VSub(final, start), PUSH_STRENGTH * SPRITE_SCALE)
    IN IF Length(delta_position) < PUSH_STRENGTH * SPRITE_SCALE * FP
       THEN VMul(NormalizeOrZero(delta_position), PUSH_STRENGTH * SPRITE_SCALE)
       ELSE delta_position

\* mutant: the cooldown restarts whenever the events have been read
fixed_update_mouse_collision_always_reset(dt) ==
    IF push_delay > 0
    THEN /\ push_delay' = push_delay - dt
         /\ drag_impulse' = No
         /\ UNCHANGED <<velocity, reader_seen>>
    ELSE /\ reader_seen' = Len(events_a) + Len(events_b)
         /\ push_delay' = PUSH_DELAY
         /\ IF Len(Unread) >= 2
            THEN LET impulse == DragImpulse(Unread[1], Unread[Len(Unread)])
                 IN /\ drag_impulse' = Some(impulse)
                    /\ velocity' = VAdd(velocity, impulse)
            ELSE /\ drag_impulse' = No
                 /\ UNCHANGED velocity

\* mutant: the cooldown branch does not return
fixed_update_mouse_collision_no_return(dt) ==
    /\ reader_seen' = Len(events_a) + Len(events_b)
    /\ IF Len(Unread) >= 2
       THEN LET impulse == DragImpulse(Unread[1], Unread[Len(Unread)])
            IN /\ drag_impulse' = Some(impulse)
               /\ velocity' = VAdd(velocity, impulse)
               /\ push_delay' = PUSH_DELAY
       ELSE /\ drag_impulse' = No
            /\ push_delay' = IF push_delay > 0 THEN push_delay - dt ELSE push_delay
            /\ UNCHANGED velocity

\* mutant: an accepted drag does not restart the cooldown
fixed_update_mouse_collision_no_reset(dt) ==
    IF push_delay > 0
    THEN /\ push_delay' = push_delay - dt
         /\ drag_impulse' = No
         /\ UNCHANGED <<velocity, reader_seen>>
    ELSE /\ reader_seen' = Len(events_a) + Len(events_b)
         /\ UNCHANGED push_delay
         /\ IF Len(Unread) >= 2
            THEN LET impulse == DragImpulse(Unread[1], Unread[Len(Unread)])
                 IN /\ drag_impulse' = Some(impulse)
                    /\ velocity' = VAdd(velocity, impulse)
            ELSE /\ drag_impulse' = No
                 /\ UNCHANGED velocity

\* mutant: a cooldown of exactly zero is counted down once more
fixed_update_mouse_collision_at_zero(dt) ==
    IF push_delay >= 0
    THEN /\ push_delay' = push_delay - dt
         /\ drag_impulse' = No
         /\ UNCHANGED <<velocity, reader_seen>>
    ELSE /\ reader_seen' = Len(events_a) + Len(events_b)
         /\ IF Len(Unread) >= 2
            THEN LET impulse == DragImpulse(Unread[1], Unread[Len(Unread)])
                 IN /\ drag_impulse' = Some(impulse)
                    /\ velocity' = VAdd(velocity, impulse)
                    /\ push_delay' = PUSH_DELAY
            ELSE /\ drag_impulse' = No
                 /\ UNCHANGED <<velocity, push_delay>>

\* mutant: while the cooldown runs, the events are read and thrown away
fixed_update_mouse_collision_drain(dt) ==
    IF push_delay > 0
    THEN /\ push_delay' = push_delay - dt
         /\ drag_impulse' = No
         /\ reader_seen' = Len(events_a) + Len(events_b)
         /\ UNCHANGED velocity
    ELSE /\ reader_seen' = Len(events_a) + Len(events_b)
         /\ IF Len(Unread) >= 2
            THEN LET impulse == DragImpulse(Unread[1], Unread[Len(Unread)])
                 IN /\ drag_impulse' = Some(impulse)
                    /\ velocity' = VAdd(velocity, impulse)
                    /\ push_delay' = PUSH_DELAY
            ELSE /\ drag_impulse' = No
                 /\ UNCHANGED <<velocity, push_delay>>

fixed_update_mouse_collision(dt) ==
    IF push_delay > 0
    THEN /\ push_delay' = push_delay - dt
         /\ drag_impulse' = No
         /\ UNCHANGED <<velocity, reader_seen>>
    ELSE /\ reader_seen' = Len(events_a) + Len(events_b)
         /\ IF Len(Unread) >= 2
            THEN LET impulse == DragImpulse(Unread[1], Unread[Len(Unread)])
                 IN /\ drag_impulse' = Some(impulse)
                    /\ velocity' = VAdd(velocity, impulse)
                    /\ push_delay' = PUSH_DELAY
            ELSE /\ drag_impulse' = No
                 /\ UNCHANGED <<velocity, push_delay>>

\* mutant: the velocity is negated instead of being given the wall's sign
ReflectAxis_negate(p, v, lo, hi) ==
    IF p < lo * FP THEN <<lo * FP, -v>>
    ELSE IF p + WINDOW_SIZE * FP > hi * FP
         THEN <<hi * FP - WINDOW_SIZE * FP, -v>>
         ELSE <<p, v>>

\* the boundary step of one axis: <<position, velocity>> after it
ReflectAxis(p, v, lo, hi) ==
    IF p < lo * FP THEN <<lo * FP, Abs(v)>>
    ELSE IF p + WINDOW_SIZE * FP > hi * FP
         THEN <<hi * FP - WINDOW_SIZE * FP, -Abs(v)>>
         ELSE <<p, v>>

\* clamp(1 - SLIDE_DRAG * SPRITE_SCALE * dt, 0, 1) as a fraction of DragDen
DragDen == SLIDE_DRAG_DEN * TPS
\* mutant: the drag of a whole second is applied whatever time elapsed
DragNum_whole_second(dt) ==
    Max(0, Min(DragDen, DragDen - SLIDE_DRAG_NUM * SPRITE_SCALE * TPS))

DragNum(dt) == Max(0, Min(DragDen, DragDen - SLIDE_DRAG_NUM * SPRITE_SCALE * dt))

update_window_movement(dt) ==
    LET lo == minimum_position(display_properties)
        hi == maximum_position(display_properties)
        rx == ReflectAxis(position.x, velocity.x, lo.x, hi.x)
        ry == ReflectAxis(position.y, velocity.y, lo.y, hi.y)
        start == Vec(rx[1], ry[1])
        vel == Vec(rx[2], ry[2])
        moved == VAdd(start, VDiv(VMul(vel, dt), TPS))
    IN /\ start_position' = start
       /\ position' = moved
       /\ velocity' = VDiv(VMul(vel, DragNum(dt)), DragDen)
       /\ distance' = distance + Length(VSub(moved, start))
       /\ window_position' = Vec(Round(moved.x), Round(moved.y))

SpinThreshold == SLIDE_SPIN_DISTANCE * SPRITE_SCALE * FP

\* mutant: a frame advance empties the accumulator
update_sprite_rotation_reset ==
    IF distance >= SpinThreshold
    THEN /\ atlas_index' = (atlas_index + 1) % ATLAS_FRAMES
         /\ distance' = 0
    ELSE UNCHANGED <<atlas_index, distance>>

\* mutant: the frame advances on every run, whatever distance has accumulated
update_sprite_rotation_unconditional ==
    /\ atlas_index' = (atlas_index + 1) % ATLAS_FRAMES
    /\ distance' = distance - SpinThreshold

update_sprite_rotation ==
    IF distance >= SpinThreshold
    THEN /\ atlas_index' = (atlas_index + 1) % ATLAS_FRAMES
         /\ distance' = distance - SpinThreshold
    ELSE UNCHANGED <<atlas_index, distance>>

----------------------------------------------------------------------------
(* History: what the input handlers did and when, kept for the properties *)

\* no impulse yet (PUSH_DELAY stands for "PUSH_DELAY or longer ago")
NoHistory(d, i) ==
    [since_impulse |-> PUSH_DELAY, since_drag |-> PUSH_DELAY, drags |-> 0,
     dt_max |-> 0, seed_distance |-> d, seed_index |-> i,
     seed_velocity |-> ZERO,
     arrived |-> 0, fresh |-> 0, since_read |-> 0, presses |-> 0, knocks |-> 0]

\* the host has delivered the pointer-move events `sent` and, with `key`, a
\* press of Space: `arrived` counts the events since the last fixed tick began,
\* `since_read` those since the EventReader was last read to its end
Delivered(h, sent, key) ==
    [h EXCEPT !.arrived = @ + Len(sent),
              !.since_read = @ + Len(sent),
              !.presses = @ + (IF key THEN 1 ELSE 0)]

\* a fixed tick begins dt after the previous one; `fresh` counts the events
\* delivered between the two
Tick(h, dt) ==
    [h EXCEPT !.since_impulse = Min(PUSH_DELAY, @ + dt),
              !.since_drag = Min(PUSH_DELAY, @ + dt),
              !.dt_max = Max(@, dt),
              !.fresh = h.arrived,
              !.arrived = 0]

\* fixed_update_mouse_collision has run in this step
AfterMouse(h) ==
    LET g == IF reader_seen' = Len(events_a) + Len(events_b)
             THEN [h EXCEPT !.since_read = 0]
             ELSE h
    IN IF drag_impulse' # No
       THEN [g EXCEPT !.since_impulse = 0, !.since_drag = 0, !.drags = @ + 1]
       ELSE g

\* fixed_update_spacebar_knocking has run in this step
AfterKnock(h) ==
    IF knock' # No
    THEN [h EXCEPT !.since_impulse = 0, !.knocks = @ + 1]
    ELSE h

----------------------------------------------------------------------------
(* The application: App::run after the Startup schedule *)

Init ==
    /\ pc = "Update"
    /\ todo = {}
    /\ ran = << >>
    /\ display_state = Loading
    /\ texture_state = Loading
    /\ application_state = Loading
    /\ display_next = None
    /\ texture_next = None
    /\ application_next = None
    /\ display_properties = DisplayDefault
    /\ monitor = No
    /\ image_loaded = FALSE
    /\ window_visible = window_settings.visible
    /\ window_position = ZERO
    /\ bodies = 0
    /\ hook_runs = 0
    /\ position = ZERO
    /\ velocity = ZERO
    /\ push_delay = 0
    /\ distance = 0
    /\ atlas_index = 0
    /\ start_position = ZERO
    /\ drag_impulse = No
    /\ knock = No
    /\ events_a = << >>
    /\ events_b = << >>
    /\ reader_seen = 0
    /\ should_update = "Always"
    /\ space_just_pressed = FALSE
    /\ frame_dt = 0
    /\ overstep = 0
    /\ play_frames = 0
    /\ steps = 0
    /\ hist = NoHistory(0, 0)

\* what current_monitor() may return while the display is being resolved;
\* nothing asks once the display state is queued or Finished
MonitorQuery ==
    IF display_state = Loading /\ display_next = None
    THEN {No} \cup {Some(m) : m \in Monitors}
    ELSE {No}

\* an invisible window receives no pointer events and no key presses
InputArrives == window_visible /\ play_frames < MaxInputFrames
CursorInput == IF InputArrives THEN {<< >>} \cup CursorBatches ELSE {<< >>}
KeyInput == IF InputArrives THEN {FALSE, TRUE} ELSE {FALSE}

\* Events::update, run by event_update_system when event_update_condition holds
RotateEvents(sent) ==
    IF should_update \in {"Always", "Ready"}
    THEN /\ events_a' = events_b \o sent
         /\ events_b' = << >>
         /\ reader_seen' = Max(0, reader_seen - Len(events_a))
         /\ should_update' = IF should_update = "Always" THEN "Always" ELSE "Waiting"
    ELSE /\ events_a' = events_a
         /\ events_b' = events_b \o sent
         /\ UNCHANGED <<reader_seen, should_update>>

\* the previous frame is over: winit delivers the input of the next one, and
\* the First and PreUpdate schedules run
BeginFrame ==
    /\ pc = "Update"
    /\ todo = {}
    /\ window_visible => play_frames < MaxPlayFrames
    /\ \E dt \in FrameDts, m \in MonitorQuery, l \in {image_loaded, TRUE},
          sent \in CursorInput, key \in KeyInput :
          /\ frame_dt' = dt
          /\ monitor' = m
          /\ image_loaded' = l
          /\ space_just_pressed' = key
          /\ RotateEvents(sent)
          /\ hist' = Delivered(hist, sent, key)
    /\ play_frames' = IF window_visible THEN play_frames + 1 ELSE play_frames
    /\ ran' = << >>
    /\ pc' = "StateTransition"
    /\ UNCHANGED <<todo, loadVars, bodyVars, windowVars, overstep, steps>>

\* the StateTransition schedule: queued states are applied, OnEnter hooks run
StateTransition ==
    /\ pc = "StateTransition"
    /\ display_state' = ApplyNext(display_state, display_next)
    /\ texture_state' = ApplyNext(texture_state, texture_next)
    /\ application_state' = ApplyNext(application_state, application_next)
    /\ display_next' = None
    /\ texture_next' = None
    /\ application_next' = None
    /\ IF EnteredFinished(application_state, application_next)
       THEN on_application_load_finished
       ELSE UNCHANGED <<bodyVars, windowVars>>
    /\ overstep' = overstep + frame_dt
    /\ pc' = "FixedMain"
    /\ UNCHANGED <<todo, ran, display_properties, eventVars, should_update,
                   envVars, steps, hist>>

\* RunFixedMainLoop: one more run of FixedUpdate is due; its FixedPostUpdate
\* signals the event buffers (signal_event_update_system)
FixedTickBegin ==
    /\ pc = "FixedMain"
    /\ todo = {}
    /\ overstep >= Timestep
    /\ overstep' = overstep - Timestep
    /\ todo' = {s \in FixedUpdateSystems : RunIf(s)}
    /\ should_update' = "Ready"
    /\ hist' = Tick(hist, Timestep)
    /\ UNCHANGED <<pc, ran, loadVars, bodyVars, windowVars, eventVars,
                   envVars, steps>>

\* RunFixedMainLoop is done; the Update schedule starts
FixedMainEnd ==
    /\ pc = "FixedMain"
    /\ todo = {}
    /\ overstep < Timestep
    /\ pc' = "Update"
    /\ todo' = {s \in UpdateSystems : RunIf(s)}
    /\ UNCHANGED <<ran, loadVars, bodyVars, windowVars, eventVars,
                   should_update, envVars, overstep, steps, hist>>

FixedUpdateMouseCollision ==
    /\ pc = "FixedMain"
    /\ IF bodies = 1
       THEN /\ Executed("fixed_update_mouse_collision")
            /\ fixed_update_mouse_collision(Timestep)
       ELSE /\ Skipped("fixed_update_mouse_collision")
            /\ UNCHANGED <<velocity, push_delay, drag_impulse, reader_seen>>
    /\ hist' = AfterMouse(hist)
    /\ UNCHANGED <<pc, loadVars, bodies, hook_runs, position, distance,
                   atlas_index, start_position, knock, windowVars, events_a,
                   events_b, should_update, envVars, overstep, steps>>

FixedUpdateSpacebarKnocking ==
    /\ pc = "FixedMain"
    /\ IF bodies = 1
       THEN /\ Executed("fixed_update_spacebar_knocking")
            /\ fixed_update_spacebar_knocking
       ELSE /\ Skipped("fixed_update_spacebar_knocking")
            /\ UNCHANGED <<velocity, knock>>
    /\ hist' = AfterKnock(hist)
    /\ UNCHANGED <<pc, loadVars, bodies, hook_runs, position, push_delay,
                   distance, atlas_index, start_position, drag_impulse,
                   windowVars, eventVars, should_update, envVars, overstep,
                   steps>>

UpdateDisplayLoading ==
    /\ pc = "Update"
    /\ Executed("update_display_loading")
    /\ update_display_loading
    /\ UNCHANGED <<pc, display_state, texture_state, application_state,
                   texture_next, application_next, bodyVars, windowVars,
                   eventVars, should_update, envVars, overstep, steps, hist>>

UpdateTextureLoading ==
    /\ pc = "Update"
    /\ Executed("update_texture_loading")
    /\ update_texture_loading
    /\ UNCHANGED <<pc, display_state, texture_state, application_state,
                   display_next, application_next, display_properties,
                   bodyVars, windowVars, eventVars, should_update, envVars,
                   overstep, steps, hist>>

UpdateApplicationLoading ==
    /\ pc = "Update"
    /\ Executed("update_application_loading")
    /\ update_application_loading
    /\ UNCHANGED <<pc, display_state, texture_state, application_state,
                   display_next, texture_next, display_properties, bodyVars,
                   windowVars, eventVars, should_update, envVars, overstep,
                   steps, hist>>

UpdateWindowMovement ==
    /\ pc = "Update"
    /\ IF bodies = 1
       THEN /\ Executed("update_window_movement")
            /\ update_window_movement(frame_dt)
       ELSE /\ Skipped("update_window_movement")
            /\ UNCHANGED <<position, velocity, distance, start_position,
                           window_position>>
    /\ UNCHANGED <<pc, loadVars, bodies, hook_runs, push_delay, atlas_index,
                   drag_impulse, knock, window_visible, eventVars, should_update,
                   envVars, overstep, steps, hist>>

UpdateSpriteRotation ==
    /\ pc = "Update"
    /\ IF bodies = 1
       THEN /\ Executed("update_sprite_rotation")
            /\ update_sprite_rotation
       ELSE /\ Skipped("update_sprite_rotation")
            /\ UNCHANGED <<atlas_index, distance>>
    /\ UNCHANGED <<pc, loadVars, bodies, hook_runs, position, velocity,
                   push_delay, start_position, drag_impulse, knock,
                   windowVars, eventVars, should_update, envVars, overstep,
                   steps, hist>>

Next ==
    \/ BeginFrame
    \/ StateTransition
    \/ FixedTickBegin
    \/ FixedMainEnd
    \/ FixedUpdateMouseCollision
    \/ FixedUpdateSpacebarKnocking
    \/ UpdateDisplayLoading
    \/ UpdateTextureLoading
    \/ UpdateApplicationLoading
    \/ UpdateWindowMovement
    \/ UpdateSpriteRotation

Spec == Init /\ [][Next]_vars

\* Loading on its own: frames begin until the window has been revealed, and
\* the frame of the reveal runs to its end.  main() sets UpdateMode::Continuous
\* for the focused and the unfocused window, so frames keep coming.
BeginLoadingFrame == ~window_visible /\ BeginFrame

NextLoading ==
    \/ BeginLoadingFrame
    \/ StateTransition
    \/ FixedTickBegin
    \/ FixedMainEnd
    \/ FixedUpdateMouseCollision
    \/ FixedUpdateSpacebarKnocking
    \/ UpdateDisplayLoading
    \/ UpdateTextureLoading
    \/ UpdateApplicationLoading
    \/ UpdateWindowMovement
    \/ UpdateSpriteRotation

Live == Init /\ [][NextLoading]_vars /\ WF_vars(NextLoading)

----------------------------------------------------------------------------
(* The handlers on their own: any body state, any elapsed time *)

FnDisplays ==
    { [position |-> Vec(0, 0), resolution |-> Vec(72, 80)],
      [position |-> Vec(0, 0), resolution |-> Vec(48, 80)] }

FnPositions == {Vec(a, b) : a \in {-2 * FP, 4 * FP, 10 * FP},
                            b \in {-FP, 4 * FP, 20 * FP}}

FnVelocities == {ZERO, Vec(64 * FP, -64 * FP), Vec(-64 * FP, 64 * FP)}

FnBatches == { <<CursorAt>>, <<CursorAt, VAdd(CursorAt, Vec(5, 0))>> }

FnDts == {0, Timestep, TPS \div 10, TPS}

\* a large display with the body where on_application_load_finished puts it
FnLargeDisplay == [position |-> Vec(0, 0), resolution |-> Vec(1920, 1080)]

FnBodies ==
    { [display |-> d, position |-> p, velocity |-> v] :
        d \in FnDisplays, p \in FnPositions, v \in FnVelocities }
    \cup { [display |-> FnLargeDisplay,
            position |-> SpawnPosition(FnLargeDisplay),
            velocity |-> Vec(500 * FP, 0)] }

InitFn ==
    /\ pc = "Fn"
    /\ todo = {}
    /\ ran = << >>
    /\ display_state = Finished
    /\ texture_state = Finished
    /\ application_state = Finished
    /\ display_next = None
    /\ texture_next = None
    /\ application_next = None
    /\ \E b \in FnBodies : /\ display_properties = b.display
                            /\ position = b.position
                            /\ velocity = b.velocity
    /\ monitor = No
    /\ image_loaded = TRUE
    /\ window_visible = TRUE
    /\ window_position = Vec(Round(position.x), Round(position.y))
    /\ bodies = 1
    /\ hook_runs = 1
    /\ push_delay \in {0, (3 * TPS) \div 10}
    /\ distance \in {0, SpinThreshold + 3}
    /\ atlas_index = 0
    /\ start_position = position
    /\ drag_impulse = No
    /\ knock = No
    /\ events_a \in FnBatches
    /\ events_b = << >>
    /\ reader_seen = 0
    /\ should_update = "Waiting"
    /\ space_just_pressed = TRUE
    /\ frame_dt = 0
    /\ overstep = 0
    /\ play_frames = 0
    /\ steps = 0
    /\ hist = Delivered([NoHistory(distance, atlas_index)
                             EXCEPT !.seed_velocity = velocity],
                        events_a, space_just_pressed)

Applied(s, dt) ==
    /\ pc = "Fn"
    /\ steps < MaxSteps
    /\ steps' = steps + 1
    /\ ran' = <<s>>
    /\ frame_dt' = dt

FnMouseCollision ==
    \E dt \in FnDts :
        /\ Applied("fixed_update_mouse_collision", dt)
        /\ fixed_update_mouse_collision(dt)
        /\ hist' = AfterMouse(Tick(hist, dt))
        /\ UNCHANGED <<pc, todo, loadVars, bodies, hook_runs, position,
                       distance, atlas_index, start_position, knock, windowVars,
                       events_a, events_b, should_update, monitor,
                       image_loaded, space_just_pressed, play_frames, overstep>>

FnSpacebarKnocking ==
    /\ Applied("fixed_update_spacebar_knocking", Timestep)
    /\ fixed_update_spacebar_knocking
    /\ hist' = AfterKnock(Tick(hist, Timestep))
    /\ UNCHANGED <<pc, todo, loadVars, bodies, hook_runs, position, push_delay,
                   distance, atlas_index, start_position, drag_impulse,
                   windowVars, eventVars, should_update, monitor, image_loaded,
                   space_just_pressed, play_frames, overstep>>

FnWindowMovement ==
    \E dt \in FnDts :
        /\ Applied("update_window_movement", dt)
        /\ update_window_movement(dt)
        /\ UNCHANGED <<pc, todo, loadVars, bodies, hook_runs, push_delay,
                       atlas_index, drag_impulse, knock, window_visible,
                       eventVars, should_update, monitor, image_loaded,
                       space_just_pressed, play_frames, overstep, hist>>

FnSpriteRotation ==
    /\ Applied("update_sprite_rotation", 0)
    /\ update_sprite_rotation
    /\ UNCHANGED <<pc, todo, loadVars, bodies, hook_runs, position, velocity,
                   push_delay, start_position, drag_impulse, knock,
                   windowVars, eventVars, should_update, monitor, image_loaded,
                   space_just_pressed, play_frames, overstep, hist>>

NextFn ==
    \/ FnMouseCollision
    \/ FnSpacebarKnocking
    \/ FnWindowMovement
    \/ FnSpriteRotation

SpecFn == InitFn /\ [][NextFn]_vars

----------------------------------------------------------------------------
(* The input handlers over fixed ticks: the FixedUpdate schedule on its own,
   with ticks of the program's length and ticks as long as the cooldown *)

InputDts == {Timestep, PUSH_DELAY}

InputBatch == <<CursorAt, VAdd(CursorAt, Vec(15, 20))>>

\* the body is at rest where it was spawned; its last accepted drag is either
\* long ago or PUSH_DELAY less two ticks ago
InitInput ==
    /\ pc = "Input"
    /\ todo = {}
    /\ ran = << >>
    /\ display_state = Finished
    /\ texture_state = Finished
    /\ application_state = Finished
    /\ display_next = None
    /\ texture_next = None
    /\ application_next = None
    /\ display_properties = FnLargeDisplay
    /\ monitor = No
    /\ image_loaded = TRUE
    /\ window_visible = TRUE
    /\ position = SpawnPosition(FnLargeDisplay)
    /\ window_position = Vec(Round(position.x), Round(position.y))
    /\ bodies = 1
    /\ hook_runs = 1
    /\ velocity = ZERO
    /\ push_delay \in {0, 2 * Timestep}
    /\ distance = 0
    /\ atlas_index = 0
    /\ start_position = position
    /\ drag_impulse = No
    /\ knock = No
    /\ events_a = << >>
    /\ events_b = << >>
    /\ reader_seen = 0
    /\ should_update = "Waiting"
    /\ space_just_pressed = FALSE
    /\ frame_dt = Timestep
    /\ overstep = 0
    /\ play_frames = 0
    /\ steps = 0
    /\ hist = [NoHistory(0, 0) EXCEPT !.since_impulse = PUSH_DELAY - push_delay,
                                      !.since_drag = PUSH_DELAY - push_delay,
                                      !.dt_max = Timestep]

\* the host delivers the input that arrived, then a run of FixedUpdate is due
InputTick ==
    /\ pc = "Input"
    /\ todo = {}
    /\ steps < MaxTicks
    /\ steps' = steps + 1
    /\ \E dt \in InputDts, sent \in {<< >>, InputBatch}, key \in BOOLEAN :
          /\ frame_dt' = dt
          /\ events_b' = events_b \o sent
          /\ space_just_pressed' = key
          /\ hist' = Tick(Delivered(hist, sent, key), dt)
    /\ todo' = {s \in FixedUpdateSystems : RunIf(s)}
    /\ ran' = << >>
    /\ UNCHANGED <<pc, loadVars, bodyVars, windowVars, events_a, reader_seen,
                   should_update, monitor, image_loaded, play_frames, overstep>>

InputMouseCollision ==
    /\ pc = "Input"
    /\ Executed("fixed_update_mouse_collision")
    /\ fixed_update_mouse_collision(frame_dt)
    /\ hist' = AfterMouse(hist)
    /\ UNCHANGED <<pc, loadVars, bodies, hook_runs, position, distance,
                   atlas_index, start_position, knock, windowVars, events_a,
                   events_b, should_update, envVars, overstep, steps>>

InputSpacebarKnocking ==
    /\ pc = "Input"
    /\ Executed("fixed_update_spacebar_knocking")
    /\ fixed_update_spacebar_knocking
    /\ hist' = AfterKnock(hist)
    /\ UNCHANGED <<pc, loadVars, bodies, hook_runs, position, push_delay,
                   distance, atlas_index, start_position, drag_impulse,
                   windowVars, eventVars, should_update, envVars, overstep,
                   steps>>

NextInput ==
    \/ InputTick
    \/ InputMouseCollision
    \/ InputSpacebarKnocking

SpecInput == InitInput /\ [][NextInput]_vars

----------------------------------------------------------------------------
(* update_sprite_rotation on its own: a seeded Distance, run after run *)

SpinRemainders == {0, 3 * FP, SpinThreshold - 1}

InitSpin ==
    /\ pc = "Spin"
    /\ todo = {}
    /\ ran = << >>
    /\ display_state = Finished
    /\ texture_state = Finished
    /\ application_state = Finished
    /\ display_next = None
    /\ texture_next = None
    /\ application_next = None
    /\ display_properties = FnLargeDisplay
    /\ monitor = No
    /\ image_loaded = TRUE
    /\ window_visible = TRUE
    /\ position = SpawnPosition(FnLargeDisplay)
    /\ window_position = Vec(Round(position.x), Round(position.y))
    /\ bodies = 1
    /\ hook_runs = 1
    /\ velocity = ZERO
    /\ push_delay = 0
    /\ distance \in {SpinThreshold * n + r : n \in 0..MaxSpins, r \in SpinRemainders}
    /\ atlas_index \in {0, ATLAS_FRAMES - 1}
    /\ start_position = position
    /\ drag_impulse = No
    /\ knock = No
    /\ events_a = << >>
    /\ events_b = << >>
    /\ reader_seen = 0
    /\ should_update = "Waiting"
    /\ space_just_pressed = FALSE
    /\ frame_dt = 0
    /\ overstep = 0
    /\ play_frames = 0
    /\ steps = 0
    /\ hist = NoHistory(distance, atlas_index)

SpinSpriteRotation ==
    /\ pc = "Spin"
    /\ steps < MaxSpins
    /\ steps' = steps + 1
    /\ ran' = <<"update_sprite_rotation">>
    /\ update_sprite_rotation
    /\ UNCHANGED <<pc, todo, loadVars, bodies, hook_runs, position, velocity,
                   push_delay, start_position, drag_impulse, knock,
                   windowVars, eventVars, should_update, envVars, overstep,
                   hist>>

NextSpin == SpinSpriteRotation

SpecSpin == InitSpin /\ [][NextSpin]_vars

----------------------------------------------------------------------------
(* The application at play with a cooldown about to end: the body is at rest
   where it was spawned, one or two fixed ticks of an earlier drag's cooldown
   are left, and the events of that drag are long gone *)

InitCooling ==
    /\ pc = "Update"
    /\ todo = {}
    /\ ran = << >>
    /\ display_state = Finished
    /\ texture_state = Finished
    /\ application_state = Finished
    /\ display_next = None
    /\ texture_next = None
    /\ application_next = None
    /\ display_properties = FnLargeDisplay
    /\ monitor = No
    /\ image_loaded = TRUE
    /\ window_visible = TRUE
    /\ position = SpawnPosition(FnLargeDisplay)
    /\ window_position = Vec(Round(position.x), Round(position.y))
    /\ bodies = 1
    /\ hook_runs = 1
    /\ velocity = ZERO
    /\ push_delay \in {Timestep, 2 * Timestep}
    /\ distance = 0
    /\ atlas_index = 0
    /\ start_position = position
    /\ drag_impulse = No
    /\ knock = No
    /\ events_a = << >>
    /\ events_b = << >>
    /\ reader_seen = 0
    /\ should_update \in {"Waiting", "Ready"}
    /\ space_just_pressed = FALSE
    /\ frame_dt = Timestep
    /\ overstep = 0
    /\ play_frames = 0
    /\ steps = 0
    /\ hist = [NoHistory(0, 0) EXCEPT !.since_impulse = PUSH_DELAY - push_delay,
                                      !.since_drag = PUSH_DELAY - push_delay,
                                      !.drags = 1,
                                      !.dt_max = Timestep]

NextPlay ==
    \/ BeginFrame
    \/ StateTransition
    \/ FixedTickBegin
    \/ FixedMainEnd
    \/ FixedUpdateMouseCollision
    \/ FixedUpdateSpacebarKnocking
    \/ UpdateWindowMovement
    \/ UpdateSpriteRotation

SpecCooling == InitCooling /\ [][NextPlay]_vars

----------------------------------------------------------------------------
(* Properties *)

RanSet == {ran[i] : i \in DOMAIN ran}

LoadingSystems == {"update_display_loading", "update_texture_loading",
                   "update_application_loading"}
InputHandlers == FixedUpdateSystems
PlaySystems == InputHandlers \cup {"update_window_movement",
                                   "update_sprite_rotation"}

\* C1: whenever the application loading state is Finished, the display and
\* the texture loading states are both Finished.
C1_FinishedNeedsBoth ==
    application_state = Finished =>
        display_state = Finished /\ texture_state = Finished

C1_Witness ==
    /\ application_state = Finished
    /\ play_frames = 0
    /\ pc = "FixedMain"

\* C2: the three loading states start as Loading, and no step takes a
\* Finished state back to Loading.
C2_LoadingIsMonotone ==
    /\ display_state = Loading /\ texture_state = Loading
    /\ application_state = Loading
    /\ [][/\ display_state = Finished => display_state' = Finished
          /\ texture_state = Finished => texture_state' = Finished
          /\ application_state = Finished => application_state' = Finished]_vars

C2_Witness ==
    /\ display_state = Finished
    /\ texture_state = Finished
    /\ application_state = Finished
    /\ play_frames >= 1
    /\ pc = "Update"
    /\ todo = {}

\* C3: the window is invisible while the application state is Loading; a
\* visible window means the monitor was resolved and the image was loaded.
C3_InvisibleWhileLoading ==
    /\ application_state = Loading => ~window_visible
    /\ window_visible => /\ display_properties \in Monitors
                         /\ image_loaded
                         /\ display_state = Finished
                         /\ texture_state = Finished

C3_Witness ==
    /\ application_state = Loading
    /\ display_state = Finished
    /\ texture_state = Loading
    /\ "update_texture_loading" \in RanSet
    /\ ~window_visible

\* C4: if some frame's monitor query returns a monitor and the image handle
\* reports loaded, then, frames continuing, the application state becomes
\* Finished, the body is spawned and the window is visible.
C4_EventuallyReady ==
    (<>(monitor # No) /\ <>image_loaded) =>
        <>(application_state = Finished /\ bodies = 1 /\ window_visible)

C4_Witness ==
    /\ application_state = Finished
    /\ bodies = 1
    /\ window_visible
    /\ image_loaded
    /\ display_properties \in Monitors
    /\ position = SpawnPosition(display_properties)

\* C5: the on-finished hook runs exactly once: there is no body while the
\* application state is Loading and exactly one once it is Finished.
C5_ExactlyOneBody ==
    /\ application_state = Loading => bodies = 0 /\ hook_runs = 0
    /\ application_state = Finished => bodies = 1 /\ hook_runs = 1

C5_Witness ==
    /\ hook_runs = 1
    /\ bodies = 1
    /\ play_frames >= 1
    /\ "update_window_movement" \in RanSet

\* C6: an input handler, the Integrator or the Animation Update runs only in
\* frames whose application state is Finished; a loading update system runs
\* only in frames in which its own concern is still Loading.
C6_SystemsAreGated ==
    \A i \in DOMAIN ran :
        /\ ran[i] \in PlaySystems => application_state = Finished
        /\ ran[i] = "update_display_loading" => display_state = Loading
        /\ ran[i] = "update_texture_loading" => texture_state = Loading
        /\ ran[i] = "update_application_loading" => application_state = Loading

C6_Witness ==
    /\ "fixed_update_mouse_collision" \in RanSet
    /\ "fixed_update_spacebar_knocking" \in RanSet
    /\ "update_window_movement" \in RanSet
    /\ "update_sprite_rotation" \in RanSet

Rank(s) == IF s \in InputHandlers THEN 1
           ELSE IF s = "update_window_movement" THEN 2
           ELSE IF s = "update_sprite_rotation" THEN 3
           ELSE 0

\* C7: in every frame after loading the systems run in the order input
\* handlers, Integrator, Animation Update, so the Animation Update sees the
\* distance the Integrator added in the same frame.
C7_SystemOrder ==
    \A i, j \in DOMAIN ran :
        (i < j /\ ran[i] \in PlaySystems /\ ran[j] \in PlaySystems)
            => Rank(ran[i]) <= Rank(ran[j])

\* C8: on a display at least as large as the window, every position the
\* Integrator pushes to the window keeps the whole window on the display.
C8_WindowOnScreen ==
    LET lo == minimum_position(display_properties)
        hi == maximum_position(display_properties)
    IN ( /\ "update_window_movement" \in RanSet
         /\ display_properties.resolution.x >= WINDOW_SIZE
         /\ display_properties.resolution.y >= WINDOW_SIZE )
       => /\ lo.x <= window_position.x
          /\ window_position.x + WINDOW_SIZE <= hi.x
          /\ lo.y <= window_position.y
          /\ window_position.y + WINDOW_SIZE <= hi.y

IntegratorStep == steps' = steps + 1 /\ ran' = <<"update_window_movement">>

BelowMin(a) == position[a] < minimum_position(display_properties)[a] * FP
AboveMax(a) ==
    position[a] + WINDOW_SIZE * FP > maximum_position(display_properties)[a] * FP
MinEdge(a) == minimum_position(display_properties)[a] * FP
MaxEdge(a) == maximum_position(display_properties)[a] * FP - WINDOW_SIZE * FP

\* C9 as stated: on each axis, a position below the minimum is clamped to the
\* minimum with a non-negative velocity, and a position whose far side is
\* beyond the maximum is clamped to the maximum less the window side with a
\* non-positive velocity, also when both hold on one axis.
C9_ClampBothSides ==
    [][IntegratorStep =>
        \A a \in {"x", "y"} :
            /\ BelowMin(a) =>
                  start_position'[a] = MinEdge(a) /\ velocity'[a] >= 0
            /\ AboveMax(a) =>
                  start_position'[a] = MaxEdge(a) /\ velocity'[a] <= 0]_vars

\* C9 amended: the minimum rule has precedence.  Below the minimum the
\* boundary step clamps to the minimum, the velocity ends non-negative and the
\* tick ends at or beyond the minimum; otherwise, with the far side beyond the
\* maximum, it clamps to the maximum less the window side, the velocity ends
\* non-positive and the tick ends at or before that edge.
C9_ClampMinFirst ==
    [][IntegratorStep =>
        \A a \in {"x", "y"} :
            /\ BelowMin(a) =>
                  /\ start_position'[a] = MinEdge(a)
                  /\ velocity'[a] >= 0
                  /\ position'[a] >= MinEdge(a)
            /\ (~BelowMin(a) /\ AboveMax(a)) =>
                  /\ start_position'[a] = MaxEdge(a)
                  /\ velocity'[a] <= 0
                  /\ position'[a] <= MaxEdge(a)]_vars

C9_Witness ==
    /\ ran = <<"update_window_movement">>
    /\ steps = 1
    /\ display_properties.resolution.x < WINDOW_SIZE
    /\ start_position.x = MinEdge("x")
    /\ velocity.x > 0
    /\ start_position.y = MaxEdge("y")
    /\ velocity.y < 0

\* C10: whenever the cursor-drag handler adds an impulse (cooldown over, two
\* or more pointer-move events), the impulse has at least the magnitude
\* PUSH_STRENGTH * SPRITE_SCALE.
C10_DragMinimum ==
    drag_impulse # No =>
        LengthSquared(drag_impulse[1]) >=
            (PUSH_STRENGTH * SPRITE_SCALE * FP) * (PUSH_STRENGTH * SPRITE_SCALE * FP)


\* a step of the handler-level specification that is one run of
\* fixed_update_mouse_collision
MouseStep ==
    steps' = steps + 1 /\ ran' = <<"fixed_update_mouse_collision">>

\* C11: a run of the cursor-drag handler with the cooldown over (push_delay
\* at or below zero) and fewer than two pointer-move events to read leaves the
\* velocity as it was and does not restart the cooldown.
C11_TooFewEventsNoOp ==
    [][(MouseStep /\ push_delay <= 0 /\ Len(Unread) < 2) =>
          /\ velocity' = velocity
          /\ push_delay' = push_delay
          /\ drag_impulse' = No]_vars

C11_Witness ==
    /\ ran = <<"fixed_update_mouse_collision">>
    /\ steps = 1
    /\ Len(events_a) = 1
    /\ reader_seen = 1
    /\ push_delay = 0
    /\ drag_impulse = No

\* C12: a run of the cursor-drag handler with the cooldown still positive
\* takes exactly the elapsed time off the cooldown, leaves the velocity as it
\* was and reads no pointer-move event (0.3 s less 0.1 s leaves 0.2 s).
C12_CooldownCountsDown ==
    [][(MouseStep /\ push_delay > 0) =>
          /\ push_delay' = push_delay - frame_dt'
          /\ velocity' = velocity
          /\ reader_seen' = reader_seen
          /\ events_a' = events_a /\ events_b' = events_b
          /\ drag_impulse' = No]_vars

C12_Witness ==
    /\ ran = <<"fixed_update_mouse_collision">>
    /\ steps = 1
    /\ frame_dt = TPS \div 10
    /\ push_delay = (2 * TPS) \div 10
    /\ Len(events_a) = 2
    /\ reader_seen = 0
    /\ velocity # ZERO


\* a step that is one run of an input handler within a fixed tick
MouseRan == ran' = Append(ran, "fixed_update_mouse_collision")
KnockRan == ran' = Append(ran, "fixed_update_spacebar_knocking")

\* C13 as stated: whenever an input handler, the keyboard knock or the cursor
\* drag, adds an impulse, at least PUSH_DELAY of tick time has passed since the
\* impulse before it.
C13_ImpulsesSpaced ==
    [][((MouseRan /\ drag_impulse' # No) \/ (KnockRan /\ knock' # No)) =>
          hist.since_impulse >= PUSH_DELAY]_vars

\* C13 amended: whenever the cursor-drag handler adds an impulse, at least
\* PUSH_DELAY of tick time has passed since the drag impulse before it; the
\* keyboard knock is not held back by the cooldown and does not restart it.
C13_DragsSpaced ==
    [][/\ (MouseRan /\ drag_impulse' # No) => hist.since_drag >= PUSH_DELAY
       /\ KnockRan => (knock' # No <=> space_just_pressed)
                          /\ push_delay' = push_delay]_vars

C13_Witness ==
    /\ hist.drags = 2
    /\ drag_impulse # No
    /\ hist.since_drag = 0
    /\ push_delay = PUSH_DELAY


\* C20 as stated: the cooldown is never negative, whatever the lengths of the
\* ticks the cursor-drag handler runs at.
C20_CooldownNeverNegative == push_delay >= 0

\* C20 amended: as long as every tick has had the length of the fixed
\* timestep, which PUSH_DELAY is a multiple of, the cooldown is never
\* negative; a longer tick may take it below zero, by less than the length of
\* that tick.
C20_CooldownAboveMinusTick ==
    /\ hist.dt_max <= Timestep => push_delay >= 0
    /\ push_delay + hist.dt_max > 0

\* the cooldown has been counted down to exactly zero, the pending events unread
C20_Witness ==
    /\ steps = 2
    /\ hist.dt_max = Timestep
    /\ "fixed_update_mouse_collision" \in RanSet
    /\ Len(events_b) >= 2
    /\ reader_seen = 0
    /\ push_delay = 0


\* C14: with the accumulated distance seeded to N thresholds and a remainder
\* r below the threshold, N runs of the animation update in a row leave the
\* accumulator at exactly r and the frame index advanced by N modulo the number
\* of frames.
C14_SpinConsumesThresholds ==
    LET n == hist.seed_distance \div SpinThreshold
        r == hist.seed_distance % SpinThreshold
    IN (pc = "Spin" /\ steps = n) =>
          /\ distance = r
          /\ atlas_index = (hist.seed_index + n) % ATLAS_FRAMES

C14_Witness ==
    /\ pc = "Spin"
    /\ steps = 9
    /\ hist.seed_distance = SpinThreshold * 9 + 3 * FP
    /\ hist.seed_index = ATLAS_FRAMES - 1
    /\ distance = 3 * FP
    /\ atlas_index = 0


\* the direction and the strength the draws of a knock stand for
KnockDirection(roll) == NormalizeOrZero(Vec(2 * roll[1] - FP, 2 * roll[2] - FP))
KnockStrength(roll) == roll[3] * MAX_STRENGTH

\* C15 as stated: the impulse of a knock is no longer than
\* 2 * PUSH_STRENGTH * SPRITE_SCALE, and it is zero only when the drawn
\* direction is zero.
C15_KnockWithinTwicePush ==
    knock # No =>
        /\ Length(knock[1].impulse) <= 2 * PUSH_STRENGTH * SPRITE_SCALE * FP
        /\ knock[1].impulse = ZERO => KnockDirection(knock[1].roll) = ZERO

\* C15 amended: the impulse of a knock is the unit direction drawn (or zero)
\* times a strength in [0, MAX_STRENGTH) times SPRITE_SCALE, with MAX_STRENGTH
\* = 4 * PUSH_STRENGTH * PUSH_STRENGTH; it is zero exactly when the direction
\* is zero or the strength drawn is zero.
C15_KnockBelowMaxStrength ==
    knock # No =>
        LET k == knock[1]
            dir == KnockDirection(k.roll)
            strength == KnockStrength(k.roll)
        IN /\ 0 <= strength /\ strength < MAX_STRENGTH * FP
           /\ Length(dir) \in {0, FP}
           /\ VMul(k.impulse, FP) = VMul(dir, strength * SPRITE_SCALE)
           /\ Length(k.impulse) < MAX_STRENGTH * SPRITE_SCALE * FP
           /\ k.impulse = ZERO <=> (dir = ZERO \/ strength = 0)

C15_Witness ==
    /\ ran = <<"fixed_update_spacebar_knocking">>
    /\ knock # No
    /\ KnockDirection(knock[1].roll) = Vec((3 * FP) \div 5, (4 * FP) \div 5)
    /\ Length(knock[1].impulse) = 128 * SPRITE_SCALE * FP
    /\ velocity = VAdd(hist.seed_velocity, knock[1].impulse)


\* the window lies within the display on both axes before the tick
InBounds == \A a \in {"x", "y"} : ~BelowMin(a) /\ ~AboveMax(a)

\* C16 as stated: an integrator tick with no time elapsed leaves the position
\* and the velocity of every body state unchanged and adds nothing to the
\* accumulated distance.
C16_ZeroTickChangesNothing ==
    [][(IntegratorStep /\ frame_dt' = 0) =>
          /\ position' = position
          /\ velocity' = velocity
          /\ distance' = distance]_vars

\* C16 amended: an integrator tick with no time elapsed adds nothing to the
\* accumulated distance and, for a window within the display, leaves position
\* and velocity unchanged; a window out of bounds is still moved to the edge
\* by the boundary step, its velocity keeping its magnitude on each axis.
C16_ZeroTickInBounds ==
    [][(IntegratorStep /\ frame_dt' = 0) =>
          /\ distance' = distance
          /\ position' = start_position'
          /\ \A a \in {"x", "y"} : Abs(velocity'[a]) = Abs(velocity[a])
          /\ InBounds => (position' = position /\ velocity' = velocity)]_vars

C16_Witness ==
    /\ ran = <<"update_window_movement">>
    /\ steps = 1
    /\ frame_dt = 0
    /\ display_properties.resolution = Vec(72, 80)
    /\ position = Vec(4 * FP, 4 * FP)
    /\ velocity = Vec(64 * FP, -64 * FP)
    /\ distance = hist.seed_distance


\* the body at its spawn position on the 1920x1080 display, moving right at
\* 500 px/s
AtSpawnMovingRight ==
    /\ display_properties = FnLargeDisplay
    /\ position = SpawnPosition(display_properties)
    /\ velocity = Vec(500 * FP, 0)

\* C17 as stated: from there, one integrator tick of one second ends with the
\* window at the right edge, position.x = 1920 - WINDOW_SIZE = 1856, and a
\* velocity.x that is not positive.
C17_EndsAtRightEdge ==
    [][(IntegratorStep /\ AtSpawnMovingRight /\ frame_dt' = TPS) =>
          /\ position'.x = (1920 - WINDOW_SIZE) * FP
          /\ velocity'.x <= 0]_vars

\* C17 amended: from there, one integrator tick of one second ends short of
\* the edge, at position (1428, 508), with the velocity halved by the drag to
\* (250, 0) and the window placed at (1428, 508).
C17_EndsShortOfEdge ==
    [][(IntegratorStep /\ AtSpawnMovingRight /\ frame_dt' = TPS) =>
          /\ start_position' = Vec(928 * FP, 508 * FP)
          /\ position' = Vec(1428 * FP, 508 * FP)
          /\ velocity' = Vec(250 * FP, 0)
          /\ window_position' = Vec(1428, 508)]_vars

C17_Witness ==
    /\ ran = <<"update_window_movement">>
    /\ steps = 1
    /\ frame_dt = TPS
    /\ display_properties = FnLargeDisplay
    /\ start_position = SpawnPosition(display_properties)
    /\ position.x = 1428 * FP
    /\ velocity.x = 250 * FP


\* C18: for a display with a resolution that is not zero, minimum_position()
\* is contained in the display (the contained region being half-open, from
\* the minimum inclusive to the maximum exclusive).
C18_MinimumIsContained ==
    (display_properties.resolution.x > 0 /\ display_properties.resolution.y > 0) =>
        contains(display_properties, minimum_position(display_properties))


\* the display and the texture loading states are both Finished
BothFinished == display_state = Finished /\ texture_state = Finished

\* the systems of the frame have all run
FrameOver == pc = "Update" /\ todo = {} /\ ran # << >>

\* C19 as stated: by the end of the first frame in which the display and the
\* texture loading states are both Finished, the application loading state is
\* Finished.
C19_FinishedInSameFrame ==
    (FrameOver /\ BothFinished) => application_state = Finished

\* C19 amended: in the first frame in which both states are Finished,
\* update_application_loading queues Finished; the application loading state
\* becomes Finished in the state transition of the frame after it, not
\* before, and update_application_loading does not run from then on.
C19_FinishedInNextFrame ==
    /\ []((FrameOver /\ BothFinished /\ application_state = Loading) =>
             /\ application_next = Finished
             /\ "update_application_loading" \in RanSet)
    /\ [](application_state = Finished =>
             "update_application_loading" \notin RanSet)
    /\ [][/\ (pc = "StateTransition" /\ BothFinished) =>
                 application_state' = Finished
          /\ (application_state = Loading /\ application_state' = Finished) =>
                 (pc = "StateTransition" /\ BothFinished)]_vars

C19_Witness ==
    /\ FrameOver
    /\ BothFinished
    /\ application_state = Loading
    /\ application_next = Finished
    /\ "update_application_loading" \in RanSet


\* C21 as stated: when the cursor-drag handler adds an impulse, every event it
\* has read, and so the first and the last position it uses, was delivered
\* after the previous fixed tick began; an event delivered before an earlier
\* tick, while the cooldown ran, is never used.
C21_OnlyFreshEvents ==
    [][(MouseRan /\ drag_impulse' # No) => Len(Unread) <= hist.fresh]_vars

\* C21 amended: while the cooldown runs the handler reads no event, so the
\* events stay unread; once the cooldown is over it reads every event that is
\* unread and still held by the buffers, all of them delivered since it last
\* read, on whichever tick, and uses the first and the last of these.
C21_AllUnreadEvents ==
    [][(MouseRan /\ bodies = 1) =>
          IF push_delay > 0
          THEN reader_seen' = reader_seen /\ drag_impulse' = No
          ELSE /\ reader_seen' = Len(events_a) + Len(events_b)
               /\ Len(Unread) <= hist.since_read
               /\ Len(Unread) >= 2 =>
                     drag_impulse' =
                         Some(DragImpulse(Unread[1], Unread[Len(Unread)]))]_vars

\* an impulse from events that were all delivered before the previous tick
C21_Witness ==
    /\ "fixed_update_mouse_collision" \in RanSet
    /\ drag_impulse # No
    /\ drag_impulse[1] # ZERO
    /\ hist.fresh = 0
    /\ hist.drags = 2
    /\ push_delay = PUSH_DELAY


\* C22: the accumulated distance is never negative, the atlas frame index is
\* always one of the ATLAS_FRAMES frames, and the accumulated distance only
\* ever goes down by exactly one threshold, taken off a distance of at least
\* one threshold (it is never set back to zero).
C22_AccumulatorOnlySubtracted ==
    /\ [](distance >= 0 /\ atlas_index \in 0..(ATLAS_FRAMES - 1))
    /\ [][distance' < distance =>
             /\ distance >= SpinThreshold
             /\ distance' = distance - SpinThreshold
             /\ atlas_index' = (atlas_index + 1) % ATLAS_FRAMES]_vars

\* a frame advance has just left a remainder in the accumulator
C22_Witness ==
    /\ pc = "Update"
    /\ ran # << >>
    /\ ran[Len(ran)] = "update_sprite_rotation"
    /\ atlas_index = 1
    /\ distance > 0
    /\ distance < SpinThreshold


\* C23: once the systems of a frame have run, the knock handler has added
\* exactly one impulse for every press of Space so far: no press has been
\* missed and none has been applied more than once.
C23_OneKnockPerPress ==
    FrameOver => hist.knocks = hist.presses

====
